---- MODULE Spec2Model ----
(***************************************************************************)
(* A model of pyrunner (src/pyrunner.py, Python 2) and of the example      *)
(* script that uses it (src/example.py).                                    *)
(*                                                                         *)
(*   Spec          main(): parse the tokens, discover, list / default /     *)
(*                 evaluate the invocation strings one by one               *)
(*   SpecDiscovery get_functions() on arbitrary namespaces                  *)
(*   SpecFuncText  _build_func_text() on arbitrary signatures               *)
(*   SpecRun       run() on arbitrary positional arguments                  *)
(***************************************************************************)
EXTENDS Integers, Sequences, FiniteSets, TLC

VARIABLES
    this_file,     \* pyrunner.py:170  os.path.abspath(__file__) of the dispatcher module
    globals_dict,  \* main: the namespace, name -> value
    args,          \* main: the raw command line tokens
    parsed,        \* main: the argparse Namespace (function, hidden, list)
    functions,     \* main: the eligible commands, name -> value
    pc,            \* main: where the run stands
    idx,           \* main: index of the invocation string the loop stands at
    stdout,        \* main: what was printed, in order
    calls,         \* main: the namespace functions called so far, in order
    evaluated,     \* main: indices of parsed.function handed to exec, in order
    status,        \* main: how the run ended
    g_in,          \* get_functions: its arguments
    g_out,         \* get_functions: its result
    t_in,          \* _build_func_text: the function whose text is built
    t_out,         \* _build_func_text: the line
    r_in,          \* run: its positional arguments
    r_proc,        \* run: the spawned process (argv) and what it did
    r_out          \* run: what the call gave back

vars == <<this_file, globals_dict, args, parsed, functions, pc, idx, stdout,
          calls, evaluated, status, g_in, g_out, t_in, t_out, r_in, r_proc, r_out>>

mainVars == <<globals_dict, args, parsed, functions, pc, idx, stdout, calls,
              evaluated, status>>

otherVars == <<g_in, g_out, t_in, t_out, r_in, r_proc, r_out>>

(***************************************************************************)
(* Bounds of the model.                                                     *)
(***************************************************************************)
MaxArgs == 3        \* command line tokens of one run
MaxParams == 2      \* named parameters of a signature given to _build_func_text
MaxRunArgs == 2     \* positional arguments of one call of run
MaxStrLen == 3      \* characters of a command string given to run

(***************************************************************************)
(* Python values.  None is a value of its own; a literal keeps its type so  *)
(* that repr can tell 1 from '1'.                                           *)
(***************************************************************************)
None == "<None>"

IntVal(n) == [ty |-> "int", i |-> n, s |-> ""]
StrVal(x) == [ty |-> "str", i |-> 0, s |-> x]
BoolVal(b) == [ty |-> "bool", i |-> IF b THEN 1 ELSE 0, s |-> ""]
NoneVal == [ty |-> "none", i |-> 0, s |-> ""]

\* The characters of the identifiers and string values the model uses.
Chars(x) ==
    CASE x = "foo" -> <<"f", "o", "o">>
      [] x = "bar" -> <<"b", "a", "r">>
      [] x = "baz" -> <<"b", "a", "z">>
      [] x = "run" -> <<"r", "u", "n">>
      [] x = "fill" -> <<"f", "i", "l", "l">>
      [] x = "default" -> <<"d", "e", "f", "a", "u", "l", "t">>
      [] x = "_hidden" -> <<"_", "h", "i", "d", "d", "e", "n">>
      [] x = "msg" -> <<"m", "s", "g">>
      [] x = "arg" -> <<"a", "r", "g">>
      [] x = "darg" -> <<"d", "a", "r", "g">>
      [] x = "star" -> <<"s", "t", "a", "r">>
      [] x = "stars" -> <<"s", "t", "a", "r", "s">>
      [] x = "hello" -> <<"h", "e", "l", "l", "o">>
      [] x = "bye" -> <<"b", "y", "e">>
      [] x = "ls" -> <<"l", "s">>
      [] x = "" -> <<>>
      [] OTHER -> <<x>>

Digit(d) ==
    CASE d = 0 -> "0" [] d = 1 -> "1" [] d = 2 -> "2" [] d = 3 -> "3" [] d = 4 -> "4"
      [] d = 5 -> "5" [] d = 6 -> "6" [] d = 7 -> "7" [] d = 8 -> "8" [] d = 9 -> "9"

RECURSIVE Digits(_)
Digits(n) == IF n < 10 THEN <<Digit(n)>> ELSE Digits(n \div 10) \o <<Digit(n % 10)>>

\* repr(value): pyrunner.py:152
repr(v) ==
    CASE v.ty = "int" -> IF v.i < 0 THEN <<"-">> \o Digits(-v.i) ELSE Digits(v.i)
      [] v.ty = "str" -> <<"'">> \o Chars(v.s) \o <<"'">>
      [] v.ty = "bool" -> IF v.i = 1 THEN <<"T", "r", "u", "e">>
                                     ELSE <<"F", "a", "l", "s", "e">>
      [] OTHER -> <<"N", "o", "n", "e">>

(***************************************************************************)
(* Files, signatures and namespace values.                                  *)
(***************************************************************************)
ScriptFile == "/work/example.py"
DispatcherFile == "/work/pyrunner.py"
DispatcherCompiled == "/work/pyrunner.pyc"
OtherFile == "/usr/lib/python2.7/textwrap.py"

\* inspect.getargspec(function): args, defaults (the defaults of the LAST
\* parameters), varargs and keywords (None when absent).
Signature(a, d, va, kw) == [args |-> a, defaults |-> d, varargs |-> va, keywords |-> kw]
NoParams == Signature(<<>>, <<>>, None, None)

Function(file, sig) == [kind |-> "function", file |-> file, sig |-> sig]
Class(file) == [kind |-> "class", file |-> file, sig |-> NoParams]

\* example.py: the functions the script defines
_hidden == Function(ScriptFile, NoParams)
default == Function(ScriptFile, NoParams)
foo == Function(ScriptFile, Signature(<<"msg">>, <<StrVal("hello")>>, None, None))
bar == Function(ScriptFile, Signature(<<"arg", "darg">>, <<IntVal(1)>>, "star", "stars"))
\* example.py:35 "from pyrunner import *" brings in what pyrunner defines and imports
run == Function(DispatcherFile, Signature(<<>>, <<>>, "args", "kwargs"))
fill == Function(OtherFile, Signature(<<"text">>, <<>>, None, "kwargs"))
Popen == Class("/usr/lib/python2.7/subprocess.py")

DEFAULT_ACTION == "default"

Imported == [n \in {"run", "fill", "Popen"} |->
                CASE n = "run" -> run [] n = "fill" -> fill [] OTHER -> Popen]

Defined(names) == [n \in names |->
                CASE n = "_hidden" -> _hidden
                  [] n = "default" -> default
                  [] n = "foo" -> foo
                  [] OTHER -> bar]

\* The globals of a script like example.py: the imports, and some of the functions.
ScriptNamespace(names) == [n \in DOMAIN Imported \cup names |->
                IF n \in names THEN Defined(names)[n] ELSE Imported[n]]

\* example.py as it is, and the same script without its default function
Namespaces == {ScriptNamespace({"_hidden", "default", "foo", "bar"}),
               ScriptNamespace({"_hidden", "foo", "bar"})}

(***************************************************************************)
(* Discovery: get_functions, pyrunner.py:168-183.                           *)
(***************************************************************************)
\* name.startswith('_'), pyrunner.py:174
startswith_underscore(name) == Chars(name) # <<>> /\ Head(Chars(name)) = "_"

\* inspect.isfunction(value), pyrunner.py:178
isfunction(value) == value.kind = "function"

\* inspect.getabsfile(value), pyrunner.py:173: the SOURCE file of the object
\* (co_filename, with .pyc/.pyo mapped back to .py by getsourcefile).
getabsfile(value) == value.file

\* The values os.path.abspath(__file__) takes (pyrunner.py:170).  In Python 2
\* a module's __file__ is the path it was loaded from: pyrunner.py when it
\* was compiled from source, pyrunner.pyc when it was imported from the
\* bytecode an earlier run left behind.
ThisFileValues == {DispatcherFile, DispatcherCompiled}

\* keep_item, pyrunner.py:172-181 (the conditions in the order the code
\* evaluates them; "and" short-circuits, so dfile() is only asked of functions)
keep_item(name, value, only_file, show_hidden) ==
    /\ (show_hidden \/ ~startswith_underscore(name))
    /\ isfunction(value)
    /\ getabsfile(value) # this_file
    /\ (only_file = None \/ getabsfile(value) = only_file)

\* get_functions, pyrunner.py:168-183: the dict of the kept items
get_functions(ns, only_file, show_hidden) ==
    LET kept == {n \in DOMAIN ns : keep_item(n, ns[n], only_file, show_hidden)}
    IN  [n \in kept |-> ns[n]]

(***************************************************************************)
(* Signature rendering: _build_func_text, pyrunner.py:123-160.              *)
(***************************************************************************)
\* NO_DEFAULT = object(), pyrunner.py:129: equal to nothing but itself
NO_DEFAULT == [ty |-> "NO_DEFAULT", i |-> 0, s |-> ""]

\* [NO_DEFAULT]*(n)
Repeat(x, n) == [k \in 1..n |-> x]

\* the defaults given to the FIRST parameters instead of the last
PaddedDefaultsOnTheRight(sig) ==
    sig.defaults \o Repeat(NO_DEFAULT, Len(sig.args) - Len(sig.defaults))

\* pyrunner.py:130-131: the defaults aligned with the named parameters
PaddedDefaults(sig) ==
    Repeat(NO_DEFAULT, Len(sig.args) - Len(sig.defaults)) \o sig.defaults

\* pyrunner.py:127-139: args and defaults, with varargs and keywords appended
TextArgs(sig) ==
    sig.args \o (IF sig.varargs # None THEN <<sig.varargs>> ELSE <<>>)
             \o (IF sig.keywords # None THEN <<sig.keywords>> ELSE <<>>)

TextDefaults(sig) ==
    PaddedDefaults(sig) \o (IF sig.varargs # None THEN <<NO_DEFAULT>> ELSE <<>>)
                        \o (IF sig.keywords # None THEN <<NO_DEFAULT>> ELSE <<>>)

\* zip(args, defaults) stops at the shorter of the two
Min(a, b) == IF a < b THEN a ELSE b

\* One pass of the loop body, pyrunner.py:143-153
TextItem(sig, arg, dv) ==
    (IF arg = sig.varargs THEN <<"*">> \o Chars(arg)
     ELSE IF arg = sig.keywords THEN <<"*", "*">> \o Chars(arg)
     ELSE Chars(arg))
    \o (IF dv # NO_DEFAULT THEN <<"=">> \o repr(dv) ELSE <<>>)
    \o <<",", " ">>

\* The loop, pyrunner.py:142-153, over the first n pairs of the zip
RECURSIVE TextLoop(_, _, _, _)
TextLoop(sig, as, ds, n) ==
    IF n = 0 THEN <<>>
    ELSE TextLoop(sig, as, ds, n - 1) \o TextItem(sig, as[n], ds[n])

\* line[:-2]
DropLastTwo(line) == SubSeq(line, 1, Len(line) - 2)

\* _build_func_text(function, name), pyrunner.py:123-160: the line
_build_func_text(function, name) ==
    LET sig == function.sig
        as == TextArgs(sig)
        ds == TextDefaults(sig)
        line == Chars(name) \o <<"(">> \o TextLoop(sig, as, ds, Min(Len(as), Len(ds)))
    IN  (IF ds # <<>> THEN DropLastTwo(line) ELSE line) \o <<")">>

(***************************************************************************)
(* Command line tokens.  A token is an option string or an invocation       *)
(* string; an invocation string is kept as what its text holds: the text    *)
(* before the first '(' (head), whether there is a '(' at all, the argument *)
(* list of that first call in the order written, and the zero-argument      *)
(* calls written as further statements after it ("foo(); run()").           *)
(***************************************************************************)
Option(f) == [flag |-> f, head |-> "", paren |-> FALSE, arglist |-> <<>>, more |-> <<>>]
Bare(name) == [flag |-> "", head |-> name, paren |-> FALSE, arglist |-> <<>>, more |-> <<>>]
Call(name, al) == [flag |-> "", head |-> name, paren |-> TRUE, arglist |-> al, more |-> <<>>]
CallThen(name, al, m) == [flag |-> "", head |-> name, paren |-> TRUE, arglist |-> al, more |-> m]

Pos(v) == [kind |-> "pos", key |-> "", val |-> v, fn |-> ""]
Kw(k, v) == [kind |-> "kw", key |-> k, val |-> v, fn |-> ""]
Nested(f) == [kind |-> "call", key |-> "", val |-> NoneVal, fn |-> f]

\* example.py:23  'bar(1, darg=88, -1, -2, fan=False)'
BarDocExample ==
    Call("bar", <<Pos(IntVal(1)), Kw("darg", IntVal(88)), Pos(IntVal(-1)),
                  Pos(IntVal(-2)), Kw("fan", BoolVal(FALSE))>>)
\* the same call with every positional literal before the keyword arguments
BarPositionalFirst ==
    Call("bar", <<Pos(IntVal(1)), Pos(IntVal(88)), Pos(IntVal(-1)),
                  Pos(IntVal(-2)), Kw("fan", BoolVal(FALSE))>>)

InvocationStrings ==
    { Bare("foo"),                                   \* example.py:17
      Call("foo", <<Pos(StrVal("bye"))>>),           \* example.py:29
      BarDocExample,
      BarPositionalFirst,
      Bare("baz"),                                   \* no such function
      Bare("_hidden"),
      Call("foo", <<Nested("_hidden")>>),            \* foo(_hidden())
      CallThen("foo", <<>>, <<"run">>) }             \* foo(); run()

OptionStrings == {Option("-l"), Option("-H")}

Tokens == OptionStrings \cup InvocationStrings

ArgLists == UNION {[1..n -> Tokens] : n \in 0..MaxArgs}

IsOption(tok) == tok.flag # ""

(***************************************************************************)
(* parse_args, pyrunner.py:107-119.  argparse gives the one positional      *)
(* ('function', nargs='*') the first unbroken run of non-option tokens; it  *)
(* does not take positionals up again after an option, so a later           *)
(* non-option token is left over and parse_args ends the run with its usage *)
(* error (status 2).                                                        *)
(***************************************************************************)
PositionalIndices(a) == {k \in 1..Len(a) : ~IsOption(a[k])}

\* the indices of the first unbroken run of non-option tokens
FirstRun(a) ==
    {k \in PositionalIndices(a) :
        \A j \in 1..k : (\E m \in 1..j : m \in PositionalIndices(a))
                            => j \in PositionalIndices(a)}

RECURSIVE SelectIndices(_, _, _)
SelectIndices(a, S, k) ==
    IF k > Len(a) THEN <<>>
    ELSE (IF k \in S THEN <<a[k]>> ELSE <<>>) \o SelectIndices(a, S, k + 1)

parse_args(a) ==
    LET first == FirstRun(a)
    IN  [error |-> PositionalIndices(a) # first,
         function |-> SelectIndices(a, first, 1),
         hidden |-> \E k \in 1..Len(a) : a[k].flag \in {"-H", "--hidden"},
         list |-> \E k \in 1..Len(a) : a[k].flag \in {"-l", "--list"}]

(***************************************************************************)
(* exec(text, globals_dict, dict()), pyrunner.py:219 and 232: what Python   *)
(* does with the text of an invocation string.                              *)
(***************************************************************************)
\* Compiling: a positional argument written after a keyword argument is a
\* SyntaxError ("non-keyword arg after keyword arg"); nothing of the string runs.
SyntaxOK(al) ==
    \A i, j \in 1..Len(al) : (i < j /\ al[i].kind = "kw") => al[j].kind = "kw"

KwIndices(al) == {k \in 1..Len(al) : al[k].kind = "kw"}

\* Binding a call's arguments to the parameters of the "def" (example.py:37-57):
\* ok is FALSE where Python raises TypeError.
Bind(sig, posvals, kws) ==
    LET n == Len(sig.args)
        np == Len(posvals)
        nd == Len(sig.defaults)
        index(p) == CHOOSE k \in 1..n : sig.args[k] = p
        named == {sig.args[k] : k \in 1..n}
        keys == {kw.key : kw \in kws}
        given(k) == k <= np \/ sig.args[k] \in keys
        value(k) == IF k <= np THEN posvals[k]
                    ELSE IF sig.args[k] \in keys
                         THEN (CHOOSE kw \in kws : kw.key = sig.args[k]).val
                    ELSE sig.defaults[k - (n - nd)]
        ok == /\ (np > n => sig.varargs # None)
              /\ \A kw \in kws : kw.key \in named => index(kw.key) > np
              /\ \A kw \in kws : kw.key \notin named => sig.keywords # None
              /\ \A k \in 1..n : given(k) \/ k > n - nd
    IN  [ok |-> ok,
         bound |-> IF ok THEN [p \in named |-> value(index(p))] ELSE <<>>,
         star |-> IF ok /\ np > n THEN SubSeq(posvals, n + 1, np) ELSE <<>>,
         stars |-> IF ok THEN {kw \in kws : kw.key \notin named} ELSE {}]

CallRecord(name, b) == [fn |-> name, bound |-> b.bound, star |-> b.star, stars |-> b.stars]

\* What the body of a called function ends with: the functions of example.py
\* print and return; run (pyrunner.py:83) asserts that it got an argument.
BodyRaises(ns, name, b) ==
    IF ns[name] = run /\ b.star = <<>> THEN "AssertionError" ELSE ""

\* A zero-argument call of a global name: NameError when the name is not in
\* the namespace, TypeError when the callee wants arguments.
CallNoArgs(ns, name) ==
    IF name \notin DOMAIN ns THEN [calls |-> <<>>, raised |-> "NameError"]
    ELSE LET b == Bind(ns[name].sig, <<>>, {})
         IN  IF b.ok THEN [calls |-> <<CallRecord(name, b)>>,
                           raised |-> BodyRaises(ns, name, b)]
             ELSE [calls |-> <<>>, raised |-> "TypeError"]

\* The arguments of the first call, left to right: a nested call runs, and
\* gives None, before the call it is an argument of.
RECURSIVE EvalArgs(_, _, _)
EvalArgs(ns, al, k) ==
    IF k > Len(al) THEN [calls |-> <<>>, raised |-> ""]
    ELSE IF al[k].kind # "call" THEN EvalArgs(ns, al, k + 1)
    ELSE LET c == CallNoArgs(ns, al[k].fn)
         IN  IF c.raised # "" THEN c
             ELSE LET rest == EvalArgs(ns, al, k + 1)
                  IN  [calls |-> c.calls \o rest.calls, raised |-> rest.raised]

RECURSIVE PosVals(_, _)
PosVals(al, k) ==
    IF k > Len(al) THEN <<>>
    ELSE (IF al[k].kind = "kw" THEN <<>> ELSE <<al[k].val>>) \o PosVals(al, k + 1)

\* The statements after the first call, in order, until one raises.
RECURSIVE EvalMore(_, _, _)
EvalMore(ns, m, k) ==
    IF k > Len(m) THEN [calls |-> <<>>, raised |-> ""]
    ELSE LET c == CallNoArgs(ns, m[k])
         IN  IF c.raised # "" THEN c
             ELSE LET rest == EvalMore(ns, m, k + 1)
                  IN  [calls |-> c.calls \o rest.calls, raised |-> rest.raised]

\* exec of the text head(arglist); more...  in the namespace ns: the calls
\* of namespace functions it makes, in order, and the exception it ends with
\* ("" when it returns).
Exec(ns, inv) ==
    IF ~SyntaxOK(inv.arglist) THEN [calls |-> <<>>, raised |-> "SyntaxError"]
    ELSE IF inv.head \notin DOMAIN ns THEN [calls |-> <<>>, raised |-> "NameError"]
    ELSE LET a == EvalArgs(ns, inv.arglist, 1)
             b == Bind(ns[inv.head].sig, PosVals(inv.arglist, 1),
                       {[key |-> inv.arglist[k].key, val |-> inv.arglist[k].val] :
                            k \in KwIndices(inv.arglist)})
         IN  IF a.raised # "" THEN a
             ELSE IF ns[inv.head].kind # "function" \/ ~b.ok
                  THEN [calls |-> a.calls, raised |-> "TypeError"]
             ELSE IF BodyRaises(ns, inv.head, b) # ""
                  THEN [calls |-> a.calls \o <<CallRecord(inv.head, b)>>,
                        raised |-> BodyRaises(ns, inv.head, b)]
             ELSE LET m == EvalMore(ns, inv.more, 1)
                  IN  [calls |-> a.calls \o <<CallRecord(inv.head, b)>> \o m.calls,
                       raised |-> m.raised]

(***************************************************************************)
(* main, pyrunner.py:195-232.                                               *)
(***************************************************************************)
NotParsed == [error |-> FALSE, function |-> <<>>, hidden |-> FALSE, list |-> FALSE]

\* main is called by the script as main(): commandfile is the script's file
\* (pyrunner.py:206-209)
commandfile == ScriptFile

\* action_list_functions, pyrunner.py:185-192: the header, and one line for
\* each function (a dict has no order of its own, so the lines are a set)
action_list_functions(fs) ==
    [ev |-> "Commands", name |-> "", lines |-> {_build_func_text(fs[n], n) : n \in DOMAIN fs}]

NotRecognized(name) == [ev |-> "is not a recognized function", name |-> name, lines |-> {}]

\* pyrunner.py:226-227: a string without '(' gets '()' appended
WithParens(i) == IF ~i.paren THEN [i EXCEPT !.paren = TRUE] ELSE i

\* pyrunner.py:228: name = i[:i.index('(')]
FunctionName(i) == WithParens(i).head

\* the membership test left out
RecognizedAlways(name, fs) == TRUE

\* pyrunner.py:229: name not in functions
Recognized(name, fs) == name \in DOMAIN fs

\* pyrunner.py:218 and 220 test "not args": no token at all
NoArguments == args = <<>>

Discovered(p) == get_functions(globals_dict, commandfile, p.hidden)

Finish(st) == pc' = "done" /\ status' = st

\* pyrunner.py:200 (parse_args ends the run with the usage error)
MainUsageError ==
    /\ pc = "start"
    /\ parse_args(args).error
    /\ parsed' = parse_args(args)
    /\ Finish("usage error, exit 2")
    /\ UNCHANGED <<this_file, otherVars, globals_dict, args, functions, idx, stdout, calls, evaluated>>

\* pyrunner.py:200-215
MainList ==
    /\ pc = "start"
    /\ LET p == parse_args(args) IN
        /\ ~p.error
        /\ p.list
        /\ parsed' = p
        /\ functions' = Discovered(p)
        /\ stdout' = Append(stdout, action_list_functions(Discovered(p)))
    /\ Finish("sys.exit(1)")
    /\ UNCHANGED <<this_file, otherVars, globals_dict, args, idx, calls, evaluated>>

\* pyrunner.py:200-211, 218-219
MainDefault ==
    /\ pc = "start"
    /\ LET p == parse_args(args)
           r == Exec(globals_dict, Call(DEFAULT_ACTION, <<>>)) IN
        /\ ~p.error
        /\ ~p.list
        /\ DEFAULT_ACTION \in DOMAIN Discovered(p) /\ NoArguments
        /\ parsed' = p
        /\ functions' = Discovered(p)
        /\ calls' = calls \o r.calls
        /\ Finish(IF r.raised = "" THEN "returned, exit 0" ELSE "raised, exit 1")
    /\ UNCHANGED <<this_file, otherVars, globals_dict, args, idx, stdout, evaluated>>

\* pyrunner.py:200-211, 220-222
MainListNoArguments ==
    /\ pc = "start"
    /\ LET p == parse_args(args) IN
        /\ ~p.error
        /\ ~p.list
        /\ ~(DEFAULT_ACTION \in DOMAIN Discovered(p) /\ NoArguments)
        /\ NoArguments
        /\ parsed' = p
        /\ functions' = Discovered(p)
        /\ stdout' = Append(stdout, action_list_functions(Discovered(p)))
    /\ Finish("sys.exit(1)")
    /\ UNCHANGED <<this_file, otherVars, globals_dict, args, idx, calls, evaluated>>

\* pyrunner.py:200-211, 223-225: into the loop over parsed.function
MainEnterLoop ==
    /\ pc = "start"
    /\ LET p == parse_args(args) IN
        /\ ~p.error
        /\ ~p.list
        /\ ~(DEFAULT_ACTION \in DOMAIN Discovered(p) /\ NoArguments)
        /\ ~NoArguments
        /\ parsed' = p
        /\ functions' = Discovered(p)
    /\ pc' = "loop"
    /\ idx' = 1
    /\ UNCHANGED <<this_file, otherVars, globals_dict, args, stdout, calls, evaluated, status>>

\* the message printed, and the loop going on (sys.exit left out)
LoopRejectWithoutExit ==
    /\ pc = "loop"
    /\ idx <= Len(parsed.function)
    /\ ~Recognized(FunctionName(parsed.function[idx]), functions)
    /\ stdout' = Append(stdout, NotRecognized(FunctionName(parsed.function[idx])))
    /\ idx' = idx + 1
    /\ UNCHANGED <<this_file, otherVars, globals_dict, args, parsed, functions, pc,
                   status, calls, evaluated>>

\* pyrunner.py:225-231: the name is not recognized
LoopReject ==
    /\ pc = "loop"
    /\ idx <= Len(parsed.function)
    /\ ~Recognized(FunctionName(parsed.function[idx]), functions)
    /\ stdout' = Append(stdout, NotRecognized(FunctionName(parsed.function[idx])))
    /\ Finish("sys.exit(1)")
    /\ UNCHANGED <<this_file, otherVars, globals_dict, args, parsed, functions, idx, calls, evaluated>>

\* pyrunner.py:225-229, 232: the string is evaluated
LoopExec ==
    /\ pc = "loop"
    /\ idx <= Len(parsed.function)
    /\ Recognized(FunctionName(parsed.function[idx]), functions)
    /\ LET r == Exec(globals_dict, WithParens(parsed.function[idx])) IN
        /\ evaluated' = Append(evaluated, idx)
        /\ calls' = calls \o r.calls
        /\ IF r.raised = ""
           THEN idx' = idx + 1 /\ UNCHANGED <<pc, status>>
           ELSE Finish("raised, exit 1") /\ UNCHANGED idx
    /\ UNCHANGED <<this_file, otherVars, globals_dict, args, parsed, functions, stdout>>

\* pyrunner.py:225: the loop is through, main returns
LoopEnd ==
    /\ pc = "loop"
    /\ idx > Len(parsed.function)
    /\ Finish("returned, exit 0")
    /\ UNCHANGED <<this_file, otherVars, globals_dict, args, parsed, functions, idx, stdout, calls, evaluated>>

IdleMain ==
    /\ globals_dict = <<>> /\ args = <<>> /\ parsed = NotParsed /\ functions = <<>>
    /\ pc = "idle" /\ idx = 0 /\ stdout = <<>> /\ calls = <<>> /\ evaluated = <<>>
    /\ status = "idle"
IdleDiscovery == g_in = <<>> /\ g_out = <<>>
IdleFuncText == t_in = <<>> /\ t_out = <<>>
IdleRun == r_in = <<>> /\ r_proc = <<>> /\ r_out = <<>>

Init ==
    /\ this_file \in ThisFileValues
    /\ globals_dict \in Namespaces
    /\ args \in ArgLists
    /\ parsed = NotParsed
    /\ functions = <<>>
    /\ pc = "start"
    /\ idx = 0
    /\ stdout = <<>>
    /\ calls = <<>>
    /\ evaluated = <<>>
    /\ status = "running"
    /\ IdleDiscovery /\ IdleFuncText /\ IdleRun

Next ==
    \/ MainUsageError
    \/ MainList
    \/ MainDefault
    \/ MainListNoArguments
    \/ MainEnterLoop
    \/ LoopReject
    \/ LoopExec
    \/ LoopEnd

Spec == Init /\ [][Next]_vars

(***************************************************************************)
(* get_functions on its own: any namespace, any only_file, either flag.     *)
(***************************************************************************)
DiscoveryNames == {"foo", "_hidden", "run"}
SourceFiles == {ScriptFile, DispatcherFile, OtherFile}
DiscoveryValues == {Function(f, NoParams) : f \in SourceFiles} \cup {Class(f) : f \in SourceFiles}
DiscoveryNamespaces == UNION {[names -> DiscoveryValues] : names \in SUBSET DiscoveryNames}

InitDiscovery ==
    /\ this_file \in ThisFileValues
    /\ g_in \in [ns : DiscoveryNamespaces,
                 only_file : {None} \cup SourceFiles,
                 show_hidden : BOOLEAN]
    /\ g_out = [done |-> FALSE, result |-> <<>>]
    /\ IdleMain /\ IdleFuncText /\ IdleRun

\* a call get_functions(ns, only_file, show_hidden), pyrunner.py:168-183
GetFunctionsCall ==
    /\ ~g_out.done
    /\ g_out' = [done |-> TRUE,
                 result |-> get_functions(g_in.ns, g_in.only_file, g_in.show_hidden)]
    /\ UNCHANGED <<this_file, mainVars, g_in, t_in, t_out, r_in, r_proc, r_out>>

NextDiscovery == GetFunctionsCall

SpecDiscovery == InitDiscovery /\ [][NextDiscovery]_vars

(***************************************************************************)
(* _build_func_text on its own: any signature.                              *)
(***************************************************************************)
ParamNames == {"arg", "darg", "msg"}
DefaultValues == {IntVal(1), IntVal(-2), IntVal(88), StrVal("hello"), BoolVal(FALSE), NoneVal}

\* the sequences of n distinct parameter names
ParamLists(n) == {a \in [1..n -> ParamNames] : \A i, j \in 1..n : i # j => a[i] # a[j]}

\* what "def" allows: n named parameters, the last k of them with defaults
Signatures ==
    {Signature(a, d, va, kw) :
        a \in UNION {ParamLists(n) : n \in 0..MaxParams},
        d \in UNION {[1..k -> DefaultValues] : k \in 0..MaxParams},
        va \in {None, "star"},
        kw \in {None, "stars"}}

InitFuncText ==
    /\ this_file \in ThisFileValues
    /\ t_in \in {[function |-> Function(ScriptFile, sig), name |-> "bar"] :
                    sig \in {x \in Signatures : Len(x.defaults) <= Len(x.args)}}
    /\ t_out = [done |-> FALSE, line |-> <<>>]
    /\ IdleMain /\ IdleDiscovery /\ IdleRun

\* a call _build_func_text(function, name), pyrunner.py:123-160
BuildFuncTextCall ==
    /\ ~t_out.done
    /\ t_out' = [done |-> TRUE, line |-> _build_func_text(t_in.function, t_in.name)]
    /\ UNCHANGED <<this_file, mainVars, g_in, g_out, t_in, r_in, r_proc, r_out>>

NextFuncText == BuildFuncTextCall

SpecFuncText == InitFuncText /\ [][NextFuncText]_vars

(***************************************************************************)
(* run, pyrunner.py:71-103.  A string is the sequence of its characters.    *)
(***************************************************************************)
Alphabet == {"l", " "}
Strings == UNION {[1..n -> Alphabet] : n \in 0..MaxStrLen}

StrArg(x) == [ty |-> "str", s |-> x, items |-> <<>>]
ListArg(xs) == [ty |-> "list", s |-> <<>>, items |-> xs]
TupleArg(xs) == [ty |-> "tuple", s |-> <<>>, items |-> xs]

\* the lists and tuples of words given to run
Words == {<<"l">>, <<"l", "l">>}
WordLists == {<<>>} \cup {<<w>> : w \in Words} \cup {<<v, w>> : v, w \in Words}

RunArguments == {StrArg(x) : x \in Strings} \cup {ListArg(xs) : xs \in WordLists}
                    \cup {TupleArg(xs) : xs \in WordLists}

\* str.split(), pyrunner.py:91: the maximal runs of non-whitespace characters
RECURSIVE split(_)
split(x) ==
    IF x = <<>> THEN <<>>
    ELSE LET init == SubSeq(x, 1, Len(x) - 1)
             c == x[Len(x)]
             before == split(init)
         IN  IF c = " " THEN before
             ELSE IF init # <<>> /\ init[Len(init)] # " "
                  THEN SubSeq(before, 1, Len(before) - 1)
                           \o <<before[Len(before)] \o <<c>>>>
             ELSE before \o <<<<c>>>>

\* isinstance(x, basestring), pyrunner.py:90; isinstance(i, (list, tuple)), :94
isbasestring(a) == a.ty = "str"
islist_or_tuple(a) == a.ty \in {"list", "tuple"}

\* the loop of pyrunner.py:93-98
RECURSIVE Flatten(_, _)
Flatten(as, k) ==
    IF k > Len(as) THEN <<>>
    ELSE (IF islist_or_tuple(as[k]) THEN as[k].items ELSE <<as[k].s>>)
             \o Flatten(as, k + 1)

\* pyrunner.py:85-98: the argument vector run hands to Popen
arguments(as) ==
    IF Len(as) = 1
    THEN IF isbasestring(as[1]) THEN split(as[1].s) ELSE <<>>
    ELSE Flatten(as, 1)

NoProcess == [spawned |-> FALSE, argv |-> <<>>, returncode |-> 0, out |-> "", err |-> ""]
NoResult == [state |-> "called", returncode |-> 0, stdout |-> "", stderr |-> ""]

InitRun ==
    /\ this_file \in ThisFileValues
    /\ r_in \in UNION {[1..n -> RunArguments] : n \in 1..MaxRunArgs}
    /\ r_proc = NoProcess
    /\ r_out = NoResult
    /\ IdleMain /\ IdleDiscovery /\ IdleFuncText

\* pyrunner.py:83-100: Popen starts the program arguments[0]
RunSpawn ==
    /\ r_out.state = "called" /\ ~r_proc.spawned
    /\ arguments(r_in) # <<>>
    /\ \E rc \in {0, 1}, o \in {"", "text"}, e \in {"", "error text"} :
          r_proc' = [spawned |-> TRUE, argv |-> arguments(r_in),
                     returncode |-> rc, out |-> o, err |-> e]
    /\ UNCHANGED <<this_file, mainVars, g_in, g_out, t_in, t_out, r_in, r_out>>

\* pyrunner.py:83-100: Popen([]) has no program to start and raises
RunSpawnRaises ==
    /\ r_out.state = "called" /\ ~r_proc.spawned
    /\ arguments(r_in) = <<>>
    /\ r_out' = [r_out EXCEPT !.state = "raised"]
    /\ UNCHANGED <<this_file, mainVars, g_in, g_out, t_in, t_out, r_in, r_proc>>

\* pyrunner.py:101-103: communicate, and the RunResult
RunReturn ==
    /\ r_out.state = "called" /\ r_proc.spawned
    /\ r_out' = [state |-> "returned", returncode |-> r_proc.returncode,
                 stdout |-> r_proc.out, stderr |-> r_proc.err]
    /\ UNCHANGED <<this_file, mainVars, g_in, g_out, t_in, t_out, r_in, r_proc>>

NextRun == RunSpawn \/ RunSpawnRaises \/ RunReturn

SpecRun == InitRun /\ [][NextRun]_vars

(***************************************************************************)
(* What the claims speak of, said without the code's own operators.         *)
(***************************************************************************)
ListFlag == \E k \in 1..Len(args) : args[k].flag \in {"-l", "--list"}
HiddenFlag == \E k \in 1..Len(args) : args[k].flag \in {"-H", "--hidden"}

\* the invocation strings among the tokens, in the order given
InvocationTokens == SelectSeq(args, LAMBDA tok : tok.flag = "")

\* the eligible commands of the run: plain functions the script itself
\* defines, the underscore-prefixed ones only with -H
EligibleNames ==
    {n \in DOMAIN globals_dict :
        /\ globals_dict[n].kind = "function"
        /\ globals_dict[n].file = ScriptFile
        /\ (HiddenFlag \/ Head(Chars(n)) # "_")}

Listed == Len(stdout) = 1 /\ stdout[1].ev = "Commands"
           /\ stdout[1].lines = {_build_func_text(globals_dict[n], n) : n \in EligibleNames}

UnrecognizedTokens ==
    {k \in 1..Len(InvocationTokens) : InvocationTokens[k].head \notin EligibleNames}

FirstUnrecognized == CHOOSE k \in UnrecognizedTokens : \A j \in UnrecognizedTokens : k <= j

Upto(n) == [k \in 1..n |-> k]

(* C1: with the list flag unset and no invocation string (with or without
   -H), the run calls the default action once without arguments and ends
   with success when the default action is eligible, and prints the listing
   and exits 1 when it is not. *)
C1_AsClaimed ==
    (pc = "done" /\ ~ListFlag /\ InvocationTokens = <<>>) =>
        IF DEFAULT_ACTION \in EligibleNames
        THEN /\ Len(calls) = 1 /\ calls[1].fn = DEFAULT_ACTION
             /\ calls[1].bound = <<>> /\ calls[1].star = <<>> /\ calls[1].stars = {}
             /\ status = "returned, exit 0"
             /\ stdout = <<>>
        ELSE Listed /\ status = "sys.exit(1)" /\ calls = <<>>

(* C2: a step of the loop that stands at an invocation string whose function
   name is not an eligible command prints the message naming it and ends the
   run with sys.exit(1) right there, evaluating nothing; and no step follows
   the end of a run, so no later string is evaluated either. *)
C2_FirstUnrecognizedAborts ==
    [][ /\ (pc = "loop" /\ idx <= Len(parsed.function)
              /\ parsed.function[idx].head \notin EligibleNames)
           => /\ pc' = "done"
              /\ status' = "sys.exit(1)"
              /\ stdout' = Append(stdout, NotRecognized(parsed.function[idx].head))
              /\ evaluated' = evaluated
              /\ calls' = calls
        /\ pc = "done" => FALSE ]_vars

\* a run that evaluated a string, then met an unrecognized name, with a string left
C2_Witness ==
    /\ pc = "done" /\ status = "sys.exit(1)"
    /\ Len(stdout) = 1 /\ stdout[1] = NotRecognized("baz")
    /\ idx = 2 /\ Len(parsed.function) = 3
    /\ evaluated = <<1>>

(* C3 as claimed: in a run whose invocation strings include a name that is
   not an eligible command, no invocation string of the run is evaluated and
   no command is called, wherever the unrecognized name stands. *)
C3_AsClaimed ==
    UnrecognizedTokens # {} => (evaluated = <<>> /\ calls = <<>>)

(* C3 as amended: in a run whose invocation strings include a name that is
   not an eligible command, no string at or after the first such one is
   evaluated and the run never ends with success; the strings before it are
   evaluated in order, and when the message is printed each of them has been
   evaluated and the run has ended with status 1. *)
C3_NothingFromTheUnrecognizedOn ==
    UnrecognizedTokens # {} =>
        /\ \A i \in 1..Len(evaluated) : evaluated[i] = i /\ i < FirstUnrecognized
        /\ status # "returned, exit 0"
        /\ stdout # <<>> /\ stdout[Len(stdout)].ev = "is not a recognized function"
            => /\ stdout = <<NotRecognized(InvocationTokens[FirstUnrecognized].head)>>
               /\ evaluated = Upto(FirstUnrecognized - 1)
               /\ status = "sys.exit(1)"

\* the unrecognized name stands last, after two strings that were evaluated
C3_Witness ==
    /\ pc = "done" /\ UnrecognizedTokens = {3}
    /\ evaluated = <<1, 2>> /\ Len(calls) >= 2
    /\ stdout = <<NotRecognized("baz")>>

(* C4: with the list flag unset and every supplied invocation string naming
   an eligible command, the run evaluates each string once, in the order
   given, and ends with success without printing the listing. *)
C4_AsClaimed ==
    (pc = "done" /\ ~ListFlag /\ InvocationTokens # <<>> /\ UnrecognizedTokens = {}) =>
        /\ evaluated = Upto(Len(InvocationTokens))
        /\ status = "returned, exit 0"
        /\ stdout = <<>>

(* C5: whenever the list flag is among the tokens, in any position and with
   any invocation strings, the run prints the listing of the eligible
   commands, exits with status 1 and evaluates nothing. *)
C5_AsClaimed ==
    (pc = "done" /\ ListFlag) =>
        Listed /\ status = "sys.exit(1)" /\ evaluated = <<>> /\ calls = <<>>

(* C6: get_functions returns exactly the entries that are plain functions,
   defined outside the dispatcher's own file, defined in only_file when it is
   given, and not underscore-prefixed unless show_hidden. *)
C6_AsClaimed ==
    g_out.done =>
        DOMAIN g_out.result =
            {n \in DOMAIN g_in.ns :
                /\ g_in.ns[n].kind = "function"
                /\ g_in.ns[n].file # DispatcherFile
                /\ (g_in.only_file # None => g_in.ns[n].file = g_in.only_file)
                /\ (g_in.show_hidden \/ Head(Chars(n)) # "_")}

(* C7: the run given the one invocation string
   bar(1, darg=88, -1, -2, fan=False), bar being defined as in example.py,
   calls bar with arg=1, darg=88, star=(-1, -2), stars={fan: False} and
   ends with success. *)
C7_AsClaimed ==
    (pc = "done" /\ args = <<BarDocExample>>) =>
        /\ calls = <<[fn |-> "bar",
                      bound |-> [p \in {"arg", "darg"} |->
                                    IF p = "arg" THEN IntVal(1) ELSE IntVal(88)],
                      star |-> <<IntVal(-1), IntVal(-2)>>,
                      stars |-> {[key |-> "fan", val |-> BoolVal(FALSE)]}]>>
        /\ status = "returned, exit 0"

\* the items of a rendered signature, joined by ", "
RECURSIVE CommaJoined(_)
CommaJoined(items) ==
    IF items = <<>> THEN <<>>
    ELSE IF Len(items) = 1 THEN items[1]
    ELSE items[1] \o <<",", " ">> \o CommaJoined(Tail(items))

RenderedItems(sig) ==
    LET n == Len(sig.args)
        k == Len(sig.defaults)
    IN  [i \in 1..n |->
            IF i <= n - k THEN Chars(sig.args[i])
            ELSE Chars(sig.args[i]) \o <<"=">> \o repr(sig.defaults[i - (n - k)])]
        \o (IF sig.varargs = None THEN <<>> ELSE << <<"*">> \o Chars(sig.varargs) >>)
        \o (IF sig.keywords = None THEN <<>> ELSE << <<"*", "*">> \o Chars(sig.keywords) >>)

BarRendered ==
    <<"b", "a", "r", "(", "a", "r", "g", ",", " ", "d", "a", "r", "g", "=", "1", ",", " ",
      "*", "s", "t", "a", "r", ",", " ", "*", "*", "s", "t", "a", "r", "s", ")">>

(* C8: _build_func_text renders name(...) with the items comma-joined in
   declaration order: a parameter without default as its name, a defaulted
   one as name=repr(default) with the default of that parameter, then *name
   and **name, no trailing separator, name() without parameters; and the
   signature of bar renders as bar(arg, darg=1, *star, **stars). *)
C8_Rendering ==
    t_out.done =>
        /\ t_out.line = Chars(t_in.name) \o <<"(">>
                            \o CommaJoined(RenderedItems(t_in.function.sig)) \o <<")">>
        /\ t_in.function.sig = bar.sig => t_out.line = BarRendered

C8_Witness == t_out.done /\ t_in.function.sig = bar.sig /\ t_out.line = BarRendered

\* the argument vector the documented forms stand for
DocumentedArgv(as) ==
    IF Len(as) = 1 /\ as[1].ty = "str" THEN split(as[1].s)
    ELSE Flatten(as, 1)

(* C9: run spawns the process with the argument vector of the documented
   form, for any number of arguments >= 1 and also for a single list or
   tuple, and returns the (exit code, stdout, stderr) of that process. *)
C9_AsClaimed ==
    /\ r_proc.spawned => r_proc.argv = DocumentedArgv(r_in)
    /\ DocumentedArgv(r_in) # <<>> => r_out.state # "raised"
    /\ r_out.state = "returned" =>
            /\ r_out.returncode = r_proc.returncode
            /\ r_out.stdout = r_proc.out
            /\ r_out.stderr = r_proc.err

(* C10: every namespace function called while an invocation string is
   evaluated is an eligible command of the run. *)
C10_AsClaimed ==
    \A i \in 1..Len(calls) : calls[i].fn \in EligibleNames

====
